---- MODULE Spec2Model ----
(***************************************************************************)
(* Model of the translation-serving layer of yimt (yimt/api/translator.py): *)
(* Translator.translate_paragraph, Translator.translate_list, _post_zh and  *)
(* the module-level mutex, with caller threads as processes.               *)
(*                                                                         *)
(* Strings are sequences of one-character strings.  The full-width         *)
(* punctuation marks U+FF0C, U+FF1B, U+FF1A are written "FW_COMMA",        *)
(* "FW_SEMICOLON", "FW_COLON" (one character each).                        *)
(***************************************************************************)
EXTENDS Integers, Sequences, FiniteSets, TLC

\* ------------------------------------------------------------- bounds
NumThreads == 2        \* caller threads
NumTranslators == 2    \* Translator instances in the process
MaxLen == 3            \* sentences of one request, single-caller workload
MaxBatch == 3          \* batch_size values tried, single-caller workload
LoadLen == 2           \* sentences of one request, concurrent workload
MaxChars == 3          \* characters of one argument of a function applied alone
MaxList == 2           \* strings of one argument of a function applied alone
MaxPair == 5           \* characters of a lang_pair argument

\* Translator.__init__'s default batch_size
DefaultBatchSize == 64

Threads == 1..NumThreads
Translators == 1..NumTranslators

\* ------------------------------------------------------------- data
\* Source sentences a segmenter can yield (strings as character sequences).
Sentences == { <<"h">>, <<"w", ",">> }

\* Break markers of the segmenter, opaque to the translator.
BreakMarkers == { <<>>, <<"\n">> }

\* lang_pair arguments of Translator.__init__ (None or "<src>-<tgt>").
LangPairs == { "None", "en-zh", "zh-en" }

SeqsUpTo(S, n) == UNION { [1..k -> S] : k \in 0..n }

SentenceLists == SeqsUpTo(Sentences, MaxLen)

\* Requests of the concurrent workload: short lists of one sentence.
LoadLists == SeqsUpTo({ <<"w", ",">> }, LoadLen)

\* Characters of translations: ASCII and full-width punctuation.
Punctuation == { ",", ";", ":", "?", ".",
                 "FW_COMMA", "FW_SEMICOLON", "FW_COLON", "FW_STOP" }

\* Strings over alphabet A of at most n characters.
StringsUpTo(A, n) == UNION { [1..k -> A] : k \in 0..n }

\* The ways of cutting a string of n characters into k consecutive pieces:
\* the end position of each piece.
Cuts(n, k) ==
    { c \in [1..k -> 0..n] :
        /\ \A j \in 1..(k - 1) : c[j] <= c[j + 1]
        /\ IF k = 0 THEN n = 0 ELSE c[k] = n }

\* The pieces of flat that end at the positions c. Every list of k strings
\* with n characters in all is CutAt(flat, c) for exactly one string flat of n
\* characters and one c in Cuts(n, k).
CutAt(flat, c) ==
    [j \in 1..Len(c) |-> SubSeq(flat, (IF j = 1 THEN 0 ELSE c[j - 1]) + 1, c[j])]

\* ------------------------------------------------------------- state
VARIABLES
    translator,     \* per Translator instance: batch_size, lang_pair, from_lang, to_lang
    mutex,          \* the module-level threading.Lock: TRUE when locked
    active,         \* per instance: callers currently inside _translate_batch
    pc,             \* per thread: position in translate_paragraph / translate_list
    self,           \* per thread: the Translator instance the call is made on
    entry,          \* per thread: "paragraph" or "list", the public method called
    source_sents,   \* translate_paragraph local
    breaks,         \* translate_paragraph local
    texts,          \* translate_list argument
    i,              \* translate_list loop variable
    done,           \* translate_list local
    to_translate,   \* translate_list local
    translations,   \* translate_list local (one batch)
    results,        \* translate_list local
    sent_translations, \* translate_paragraph local `translations`
    ret,            \* per thread: what the caller got back
    log,            \* per thread: history of the events of the call
    fn,             \* a function applied alone: its name, arguments and result
    inputter,       \* a WordEmbedder (TextInputter) object: its fields
    projector       \* per log directory: projector_config.pbtxt and the metadata files

vars == << translator, mutex, active, pc, self, entry, source_sents, breaks,
           texts, i, done, to_translate, translations, results,
           sent_translations, ret, log, fn, inputter, projector >>

\* The state of the calls of translate_paragraph / translate_list.
callVars == << translator, mutex, active, pc, self, entry, source_sents, breaks,
               texts, i, done, to_translate, translations, results,
               sent_translations, ret, log >>

\* The objects outside the translation-serving layer.
objVars == << inputter, projector >>

Event(op, arg) == [op |-> op, arg |-> arg]

\* ------------------------------------------------------------- pure parts

\* Python's None as a lang_pair argument: distinct from every string, whose
\* elements are single characters.
NoneValue == << "None" >>

\* Characters of language-pair strings.
PairChars == { "e", "n", "z", "h", "-" }

\* str.split("-"): the pieces of s between the dashes (at least one piece).
RECURSIVE SplitDashFrom(_, _, _)
SplitDashFrom(s, piece, pieces) ==
    IF s = <<>> THEN Append(pieces, piece)
    ELSE IF Head(s) = "-" THEN SplitDashFrom(Tail(s), <<>>, Append(pieces, piece))
    ELSE SplitDashFrom(Tail(s), Append(piece, Head(s)), pieces)

SplitDash(s) == SplitDashFrom(s, <<>>, <<>>)

TranslatorInit_Swapped(lp, bs) ==
    IF lp = NoneValue
    THEN [kind |-> "translator", lang_pair |-> lp, from_lang |-> <<"e", "n">>,
          to_lang |-> <<"z", "h">>, batch_size |-> bs]
    ELSE IF Len(SplitDash(lp)) < 2
    THEN [kind |-> "IndexError"]
    ELSE [kind |-> "translator", lang_pair |-> lp, from_lang |-> SplitDash(lp)[2],
          to_lang |-> SplitDash(lp)[1], batch_size |-> bs]
\* Translator.__init__ on strings as character sequences: the fields of the new
\* instance, or the IndexError of split("-")[1] on a string without a dash.
TranslatorInit(lp, bs) ==
    IF lp = NoneValue
    THEN [kind |-> "translator", lang_pair |-> lp, from_lang |-> <<"e", "n">>,
          to_lang |-> <<"z", "h">>, batch_size |-> bs]
    ELSE IF Len(SplitDash(lp)) < 2
    THEN [kind |-> "IndexError"]
    ELSE [kind |-> "translator", lang_pair |-> lp, from_lang |-> SplitDash(lp)[1],
          to_lang |-> SplitDash(lp)[2], batch_size |-> bs]

\* The characters of the language pairs of the workloads, and the names of
\* the language codes.
PairString(lp) == CASE lp = "None" -> NoneValue
                    [] lp = "en-zh" -> <<"e", "n", "-", "z", "h">>
                    [] lp = "zh-en" -> <<"z", "h", "-", "e", "n">>
LangName(code) == CASE code = <<"e", "n">> -> "en"
                    [] code = <<"z", "h">> -> "zh"

\* Translator.__init__: from_lang / to_lang from lang_pair.
FromLang(lp) == LangName(TranslatorInit(PairString(lp), 0).from_lang)
ToLang(lp) == LangName(TranslatorInit(PairString(lp), 0).to_lang)

\* The fields of an adapter instance: those of Translator.__init__ and the
\* backend handle the adapter's own constructor adds.
NewTranslator(lp, bs) ==
    [sp_source_model |-> "SentencePieceProcessor",
     lang_pair |-> lp, from_lang |-> FromLang(lp), to_lang |-> ToLang(lp),
     batch_size |-> bs, backend |-> "model"]

\* The backend's model: a deterministic translation of one sentence that does
\* not depend on the rest of the batch.
ModelOut(s) == IF s = <<"h">> THEN <<"n", ",", "?">>
               ELSE <<"m", ";", ":", ",">>

\* _translate_batch when it returns: one translation per sentence, in order.
TranslateBatch(batch) == [k \in 1..Len(batch) |-> ModelOut(batch[k])]

\* str.replace of one character by one character.
Replace(t, old, new) == [k \in 1..Len(t) |-> IF t[k] = old THEN new ELSE t[k]]

PostZh_AnyLang(to_lang, trs) ==
    [k \in 1..Len(trs) |->
        Replace(Replace(Replace(trs[k], ",", "FW_COMMA"),
                        ";", "FW_SEMICOLON"), ":", "FW_COLON")]
PostZh_ColonToComma(to_lang, trs) ==
    IF to_lang = "zh"
    THEN [k \in 1..Len(trs) |->
            Replace(Replace(Replace(trs[k], ",", "FW_COMMA"),
                            ";", "FW_SEMICOLON"), ":", ",")]
    ELSE trs
\* Translator._post_zh
PostZh(to_lang, trs) ==
    IF to_lang = "zh"
    THEN [k \in 1..Len(trs) |->
            Replace(Replace(Replace(trs[k], ",", "FW_COMMA"),
                            ";", "FW_SEMICOLON"), ":", "FW_COLON")]
    ELSE trs

InRange_Inclusive(idx, n) == idx <= n
\* range(0, len(texts), batch_size): is index i produced?
InRange(idx, n) == idx < n

Slice_DropLast(txts, idx, bs) ==
    IF idx + bs < Len(txts)
    THEN SubSeq(txts, idx + 1, idx + bs - 1)
    ELSE SubSeq(txts, idx + 1, Len(txts))
Slice_OneMore(txts, idx, bs) ==
    IF idx + bs < Len(txts)
    THEN SubSeq(txts, idx + 1, idx + bs + 1)
    ELSE SubSeq(txts, idx + 1, Len(txts))
\* texts[i:i+batch_size] or texts[i:]  (i is 0-based as in the source)
Slice(txts, idx, bs) ==
    IF idx + bs < Len(txts)
    THEN SubSeq(txts, idx + 1, idx + bs)
    ELSE SubSeq(txts, idx + 1, Len(txts))

Extend_Prepend(res, trs) == trs \o res
\* results.extend(translations)
Extend(res, trs) == res \o trs

RangeNext_Skip(idx, bs) == idx + bs + 1
\* the for loop's next index
RangeNext(idx, bs) == idx + bs

CanAcquire_Unguarded(t) == TRUE
CanAcquire_PerInstance(t) ==
    \A u \in Threads :
        (entry[u] = "paragraph"
         /\ pc[u] \in {"for", "call", "backend", "post", "extend", "unlock", "exc_unlock"})
        => self[u] # self[t]
\* threading.Lock.acquire (blocking): possible only when unlocked
CanAcquire(t) == mutex = FALSE

MutexAfterExit_NeverReleased(exc) == TRUE
MutexAfterExit_LeakOnException(exc) == exc
MutexAfterExit_HeldOnReturn(exc) == ~exc
\* `with mutex:` exit: the lock state after leaving the block, normally
\* (exc = FALSE) or by an exception (exc = TRUE)
MutexAfterExit(exc) == FALSE

RaisePc_Swallow(e) == "extend"
\* where an exception raised by _translate_batch goes: translate_list has no
\* handler, so it leaves translate_list; under translate_paragraph it reaches
\* the exit of the with block.
RaisePc(e) == IF e = "paragraph" THEN "exc_unlock" ELSE "raised"

AfterBackendPc_SkipPost == "extend"
\* the statement after `translations = self._translate_batch(to_translate)`
AfterBackendPc == "post"

\* translate_list as a function of its argument, the batch size and the target
\* language, when no batch raises: the loop of lines 92-107 from index idx on.
RECURSIVE TranslateListFrom(_, _, _, _, _)
TranslateListFrom(txts, idx, res, bs, to_lang) ==
    IF InRange(idx, Len(txts))
    THEN TranslateListFrom(txts, RangeNext(idx, bs),
                           Extend(res, PostZh(to_lang, TranslateBatch(Slice(txts, idx, bs)))),
                           bs, to_lang)
    ELSE res

TranslateList(txts, bs, to_lang) == TranslateListFrom(txts, 0, <<>>, bs, to_lang)

\* paragraph_detokenizer(translations, breaks): the reassembled text, kept as
\* the pair it is built from.
ParagraphDetokenizer(trs, brk) == [translations |-> trs, breaks |-> brk]

\* The number of paragraphs of a reassembled text: one more than its break
\* markers.
ParagraphCount(text) == Len(text.breaks) + 1

LoadTranslator_SavedFirst(ct2, pb, fails, lp) ==
    LET cls == IF pb THEN "TranslatorSaved"
               ELSE IF ct2 THEN "TranslatorCT2"
               ELSE "TranslatorCkpt"
    IN  [invoked |-> << cls >>,
         out |-> IF fails THEN [kind |-> "exception"]
                 ELSE [kind |-> "translator", class |-> cls,
                       fields |-> TranslatorInit(lp, DefaultBatchSize)]]
\* load_translator: ct2 is ctranslate2.contains_model(dir), pb the existence of
\* dir/saved_model.pb, fails whether the adapter's constructor raises.  The
\* adapter constructors invoked, in order, and what the caller gets.
LoadTranslator(ct2, pb, fails, lp) ==
    LET cls == IF ct2 THEN "TranslatorCT2"
               ELSE IF pb THEN "TranslatorSaved"
               ELSE "TranslatorCkpt"
    IN  [invoked |-> << cls >>,
         out |-> IF fails THEN [kind |-> "exception"]
                 ELSE [kind |-> "translator", class |-> cls,
                       fields |-> TranslatorInit(lp, DefaultBatchSize)]]

\* Letters of dictionary words, in both cases.
Letters == { "a", "b", "A", "B" }

\* str.lower, character by character.
LowerChar(c) == CASE c = "A" -> "a" [] c = "B" -> "b" [] OTHER -> c
Lower(w) == [k \in 1..Len(w) |-> LowerChar(w[k])]

\* Word2word lexicons: each key of word2x with its translations, best first.
Lexicons ==
    { (<< "a" >> :> << << "x" >>, << "y" >> >>) @@ (<< "a", "b" >> :> << << "z" >> >>),
      (<< "b" >> :> << << "y" >> >>) @@ (<< "A" >> :> << << "x" >> >>) }

\* Word2word.__call__: the translations of a key, KeyError when it is absent.
LexiconCall(lex, w) ==
    IF w \in DOMAIN lex THEN [kind |-> "value", value |-> lex[w]]
    ELSE [kind |-> "KeyError"]

WordHas_CaseSensitive(lex, w) == w \in DOMAIN lex
\* WordTranslator.has
WordHas(lex, w) == Lower(w) \in DOMAIN lex

\* WordTranslator.lookup: the exception of the lexicon call, else its [0].
WordLookup(lex, w) ==
    LET r == LexiconCall(lex, Lower(w))
    IN  IF r.kind = "value" THEN [kind |-> "value", value |-> r.value[1]] ELSE r

\* Characters of the sentences handed to _preprocess.
SentenceChars == { "h", "w", "," }

\* The SentencePiece model's encode(text, out_type=str) for one sentence: a
\* deterministic segmentation into pieces, here one piece per character, the
\* first piece carrying the word-boundary marker (written "SP_MARK").
SpEncode(text) ==
    [k \in 1..Len(text) |-> IF k = 1 THEN << "SP_MARK", text[k] >> ELSE << text[k] >>]

\* Translator._tokenize on a list of texts: one token list per text.
Tokenize(txts) == [k \in 1..Len(txts) |-> SpEncode(txts[k])]

\* max of a non-empty list of numbers
MaxOf(ns) == CHOOSE m \in { ns[k] : k \in 1..Len(ns) } : \A k \in 1..Len(ns) : ns[k] <= m

Pad_Leading(tokens, n) == [j \in 1..n |-> <<>>] \o tokens
\* tokens += [""] * n  (the empty string is the empty character sequence)
Pad(tokens, n) == tokens \o [j \in 1..n |-> <<>>]

\* Translator._preprocess: the tokens and length tensors, or the ValueError of
\* max() on an empty batch.
Preprocess(txts) ==
    LET all_tokens == Tokenize(txts)
        lengths == [k \in 1..Len(all_tokens) |-> Len(all_tokens[k])]
    IN  IF lengths = <<>> THEN [kind |-> "ValueError"]
        ELSE LET max_length == MaxOf(lengths)
             IN  [kind |-> "inputs",
                  tokens |-> [k \in 1..Len(all_tokens) |->
                                IF lengths[k] < max_length
                                THEN Pad(all_tokens[k], max_length - lengths[k])
                                ELSE all_tokens[k]],
                  length |-> lengths]

\* Characters of the tokens of a backend output: a letter, the space, a tab
\* and the word-boundary marker.
TokenChars == { "a", " ", "TAB", "SP_MARK" }

\* The characters str.strip() removes, among TokenChars.
Whitespace == { " ", "TAB" }

\* sep.join(tokens)
RECURSIVE Join(_, _)
Join(sep, tokens) ==
    IF tokens = <<>> THEN <<>>
    ELSE IF Len(tokens) = 1 THEN tokens[1]
    ELSE tokens[1] \o << sep >> \o Join(sep, Tail(tokens))

\* str.replace(old, "")
Remove(s, old) == SelectSeq(s, LAMBDA ch : ch # old)

\* str.strip()
Strip(s) ==
    LET kept == { k \in 1..Len(s) : s[k] \notin Whitespace }
    IN  IF kept = {} THEN <<>>
        ELSE SubSeq(s, CHOOSE a \in kept : \A k \in kept : a <= k,
                       CHOOSE b \in kept : \A k \in kept : k <= b)

DetokenizeTokens_MarkerFirst(tokens) ==
    Strip(Remove(Replace(Join(" ", tokens), "SP_MARK", " "), " "))
\* Translator._detokenize
DetokenizeTokens(tokens) ==
    Strip(Replace(Remove(Join(" ", tokens), " "), "SP_MARK", " "))

\* A token of a backend output tensor: a byte string.
Bytes(s) == [bytes |-> s]

\* str(t, "utf-8")
DecodeUtf8(t) == t.bytes

Take_All(row, n) == row
\* row[:n] for n >= 0
Take(row, n) == SubSeq(row, 1, IF n < Len(row) THEN n ELSE Len(row))

\* Translator._postprocess: one text per row of the output, from the first
\* length[0] tokens of the row's first hypothesis.
Postprocess(outputs) ==
    LET rows == IF Len(outputs.tokens) < Len(outputs.length)
                THEN Len(outputs.tokens) ELSE Len(outputs.length)
    IN  [k \in 1..rows |->
            LET tokens == Take(outputs.tokens[k][1], outputs.length[k][1])
            IN  DetokenizeTokens([j \in 1..Len(tokens) |-> DecodeUtf8(tokens[j])])]

\* ---- TextInputter / WordEmbedder (text_inputter.py)

\* WordEmbedder.__init__ over TextInputter.__init__: the fields of a new
\* object. base_initialized is history, not a field: TextInputter.initialize
\* has run to its end at least once.
\* A value of a field that may also be None.
Some(x) == << x >>

NewWordEmbedder(embedding_size) ==
    [num_oov_buckets |-> 1,
     noiser |-> NoneValue, in_place_noise |-> FALSE, noise_probability |-> NoneValue,
     vocabulary_file |-> NoneValue, vocabulary_size |-> NoneValue,
     tokens_to_ids |-> NoneValue, ids_to_tokens |-> NoneValue,
     tokenizer |-> NoneValue,
     embedding_size |-> embedding_size, embedding_file |-> NoneValue,
     mark_start |-> NoneValue, mark_end |-> NoneValue,
     base_initialized |-> FALSE]

\* The data_config dictionaries tried. "absent" stands for a missing
\* "vocabulary" key; the other keys are read with .get and are "None" when
\* missing.
DataConfigs ==
    [vocabulary : { "absent", "vocab.txt", "missing.txt" },
     tokenization : { "None", "in_graph", "external", "invalid" },
     embedding : { "None", "emb.txt" },
     sequence_controls : { "None", "start" }]

\* vocab.create_lookup_tables: the size and the two tables of a vocabulary
\* file that can be read, an error for one that cannot.
CreateLookupTables(vocabulary_file) ==
    IF vocabulary_file = "vocab.txt"
    THEN [kind |-> "returned", vocabulary_size |-> Some("size"),
          tokens_to_ids |-> Some("table"), ids_to_tokens |-> Some("table")]
    ELSE [kind |-> "NotFoundError"]

\* tokenizers.make_tokenizer: a tokenizer object (the space tokenizer for no
\* configuration), an error for a configuration it does not accept.
MakeTokenizer(tokenizer_config) ==
    CASE tokenizer_config = "invalid" -> [kind |-> "ValueError"]
      [] tokenizer_config = "external" -> [kind |-> "returned", tokenizer |-> Some("external")]
      [] OTHER -> [kind |-> "returned", tokenizer |-> Some("in_graph")]

Raised(obj, kind) == [obj |-> obj, out |-> [kind |-> kind]]
Returned(obj) == [obj |-> obj, out |-> [kind |-> "returned"]]

\* TextInputter.initialize, lines 255-267: the object it leaves and how it
\* ends. A statement that raises leaves the assignments before it in place.
TextInputterInitialize(obj, data_config) ==
    IF data_config.vocabulary = "absent" THEN Raised(obj, "KeyError")
    ELSE
      LET o1 == [obj EXCEPT !.vocabulary_file = Some(data_config.vocabulary)]
          tables == CreateLookupTables(data_config.vocabulary)
      IN  IF tables.kind # "returned" THEN Raised(o1, tables.kind)
          ELSE
            LET o2 == [o1 EXCEPT !.vocabulary_size = tables.vocabulary_size,
                                 !.tokens_to_ids = tables.tokens_to_ids,
                                 !.ids_to_tokens = tables.ids_to_tokens]
                made == MakeTokenizer(data_config.tokenization)
            IN  IF made.kind # "returned" THEN Raised(o2, made.kind)
                ELSE Returned([o2 EXCEPT !.tokenizer = made.tokenizer,
                                         !.base_initialized = TRUE])

\* WordEmbedder.initialize, lines 431-452.
WordEmbedderInitialize(obj, data_config) ==
    LET base == TextInputterInitialize(obj, data_config)
    IN  IF base.out.kind # "returned" THEN base
        ELSE IF data_config.embedding = "None" /\ base.obj.embedding_size = NoneValue
        THEN Raised(base.obj, "ValueError")
        ELSE
          LET o1 == IF data_config.embedding # "None"
                    THEN [base.obj EXCEPT !.embedding_file = Some(data_config.embedding)]
                    ELSE base.obj
          IN  Returned(IF data_config.sequence_controls # "None"
                       THEN [o1 EXCEPT !.mark_start = Some("True"), !.mark_end = NoneValue]
                       ELSE o1)

NotInitialized == [kind |-> "RuntimeError", message |-> "The input layer is not initialized"]

AssertIsInitialized_ChecksVocabulary(obj) ==
    IF obj.vocabulary_file = NoneValue THEN NotInitialized ELSE [kind |-> "returned"]
\* TextInputter._assert_is_initialized, lines 362-367
AssertIsInitialized(obj) ==
    IF obj.tokenizer = NoneValue THEN NotInitialized ELSE [kind |-> "returned"]

\* export_assets, make_features and input_signature: the guard, then the body.
ExportAssets(obj) ==
    LET guard == AssertIsInitialized(obj)
    IN  IF guard.kind # "returned" THEN guard
        ELSE [kind |-> "returned", value |-> "assets"]

MakeFeatures(obj) ==
    LET guard == AssertIsInitialized(obj)
    IN  IF guard.kind # "returned" THEN guard
        ELSE [kind |-> "returned", value |-> "features"]

InputSignature(obj) ==
    LET guard == AssertIsInitialized(obj)
    IN  IF guard.kind # "returned" THEN guard
        ELSE [kind |-> "returned",
              value |-> IF obj.tokenizer = Some("in_graph") THEN "text" ELSE "tokens, length"]

SetNoise_AssignFirst(obj, noiser, in_place, probability) ==
    LET o1 == [obj EXCEPT !.noiser = noiser]
    IN  IF in_place /\ probability = NoneValue THEN Raised(o1, "ValueError")
        ELSE Returned([o1 EXCEPT !.in_place_noise = in_place,
                                 !.noise_probability = probability])
\* TextInputter.set_noise, lines 269-287
SetNoise(obj, noiser, in_place, probability) ==
    IF in_place /\ probability = NoneValue THEN Raised(obj, "ValueError")
    ELSE Returned([obj EXCEPT !.noiser = noiser,
                              !.in_place_noise = in_place,
                              !.noise_probability = probability])

\* ---- save_embeddings_metadata (text_inputter.py)

\* The log directories written to.
LogDirs == { "run1", "run2" }

\* A log directory: whether projector_config.pbtxt exists, its embeddings in
\* file order, and the metadata files.
NoConfig == [exists |-> FALSE, config |-> <<>>, metadata |-> {}]

\* Checkpoint names of embedding variables; they end with /.ATTRIBUTES/VALUE,
\* written /A/V.
VariableNames ==
    { << "s", "/", "e", "/", "A", "/", "V" >>,
      << "t", "/", "e", "/", "A", "/", "V" >>,
      << "s", "_", "e", "/", "A", "/", "V" >> }

\* str.split(sep): the pieces of s from position k on, cur being the piece
\* read so far.
RECURSIVE SplitFrom(_, _, _, _)
SplitFrom(s, sep, k, cur) ==
    IF k > Len(s) THEN << cur >>
    ELSE IF s[k] = sep THEN << cur >> \o SplitFrom(s, sep, k + 1, <<>>)
    ELSE SplitFrom(s, sep, k + 1, Append(cur, s[k]))

Split(s, sep) == SplitFrom(s, sep, 1, <<>>)

\* "%s.txt" % "_".join(variable_name.split("/")[:-2])
MetadataFilename(variable_name) ==
    LET parts == Split(variable_name, "/")
    IN  Join("_", SubSeq(parts, 1, Len(parts) - 2)) \o << ".txt" >>

Embedding(tensor_name, metadata_path) ==
    [tensor_name |-> tensor_name, metadata_path |-> metadata_path]

\* An entry some other tool put into the projector configuration.
ForeignEmbedding == Embedding(<< "o" >>, << "o", ".tsv" >>)

\* What a log directory may hold before the first call: nothing, a
\* configuration without embeddings, one with a foreign entry, one with an
\* entry of a variable under another metadata path.
InitialDirs ==
    { NoConfig,
      [exists |-> TRUE, config |-> <<>>, metadata |-> {}],
      [exists |-> TRUE, config |-> << ForeignEmbedding >>, metadata |-> {}],
      [exists |-> TRUE,
       config |-> << Embedding(<< "s", "/", "e", "/", "A", "/", "V" >>, << "old", ".tsv" >>),
                     ForeignEmbedding >>,
       metadata |-> {}] }

\* The first entry registered under the name, 0 when there is none: the loop
\* of lines 69-74.
RECURSIVE FirstRegistered(_, _, _)
FirstRegistered(embeddings, variable_name, k) ==
    IF k > Len(embeddings) THEN 0
    ELSE IF embeddings[k].tensor_name = variable_name THEN k
    ELSE FirstRegistered(embeddings, variable_name, k + 1)

Register_AlwaysAdd(embeddings, variable_name, filename) ==
    Append(embeddings, Embedding(variable_name, filename))
\* lines 67-79: update the registered entry's metadata path, or add an entry
Register(embeddings, variable_name, filename) ==
    LET k == FirstRegistered(embeddings, variable_name, 1)
    IN  IF k # 0 THEN [embeddings EXCEPT ![k].metadata_path = filename]
        ELSE Append(embeddings, Embedding(variable_name, filename))

\* save_embeddings_metadata, lines 23-82, on one log directory: the directory
\* it leaves and how it ends. A vocabulary file that cannot be read raises
\* before the configuration is read; the metadata file may or may not have
\* been created by then (created says which).
SaveEmbeddingsMetadata(dir, variable_name, vocabulary_file, created) ==
    LET filename == MetadataFilename(variable_name)
    IN  IF vocabulary_file # "vocab.txt"
        THEN [dir |-> IF created THEN [dir EXCEPT !.metadata = @ \cup { filename }] ELSE dir,
              out |-> [kind |-> "NotFoundError"]]
        ELSE LET loaded == IF dir.exists THEN dir.config ELSE <<>>
             IN  [dir |-> [exists |-> TRUE,
                           config |-> Register(loaded, variable_name, filename),
                           metadata |-> dir.metadata \cup { filename }],
                  out |-> [kind |-> "returned"]]

\* ---- translate_list for any batch_size

RangeStep_Abs(batch_size) == IF batch_size < 0 THEN 0 - batch_size ELSE batch_size
\* the step of range(0, len(texts), self.batch_size)
RangeStep(batch_size) == batch_size

\* range(0, n, step) for a step other than 0: is index idx produced?
RangeProduces(idx, n, step) == IF step > 0 THEN idx < n ELSE idx > n

\* The loop of translate_list from index idx on, when no batch raises: the
\* results and the number of _translate_batch calls.
RECURSIVE TranslateListLoop(_, _, _, _, _, _)
TranslateListLoop(txts, idx, res, calls, bs, to_lang) ==
    IF RangeProduces(idx, Len(txts), RangeStep(bs))
    THEN TranslateListLoop(txts, idx + RangeStep(bs),
                           Extend(res, PostZh(to_lang, TranslateBatch(Slice(txts, idx, bs)))),
                           calls + 1, bs, to_lang)
    ELSE [kind |-> "list", value |-> res, calls |-> calls]

\* translate_list, lines 84-107, for any integer batch_size: range() raises
\* ValueError for a step of 0 before the loop is entered.
TranslateListCall(txts, bs, to_lang) ==
    IF RangeStep(bs) = 0 THEN [kind |-> "ValueError", calls |-> 0]
    ELSE TranslateListLoop(txts, 0, <<>>, 0, bs, to_lang)

\* ---- the sp_train script (sp_train.py)

\* argparse defaults of --vocab_size and --max_sentences
DefaultVocabSize == 32000
DefaultMaxSentences == 5000000

DigitChars == << "0", "1", "2", "3", "4", "5", "6", "7", "8", "9" >>

\* int(s) of a string of decimal digits, as argparse's type=int does it
RECURSIVE ParseInt(_)
ParseInt(s) ==
    IF s = <<>> THEN 0
    ELSE 10 * ParseInt(SubSeq(s, 1, Len(s) - 1))
         + (CHOOSE d \in 0..9 : DigitChars[d + 1] = s[Len(s)])

\* "{}".format(n) of a natural number
RECURSIVE FormatInt(_)
FormatInt(n) ==
    IF n < 10 THEN << DigitChars[n + 1] >>
    ELSE FormatInt(n \div 10) \o << DigitChars[(n % 10) + 1] >>

\* An option that is not on the command line.
Absent == << "absent" >>

\* argparse: the value of an option, its default when it is absent.
OptionValue(given, default) == IF given = Absent THEN default ELSE given

\* The script from parse_args on, lines 13-19, for a command line that gives
\* --corpus: what train_spm is called with, or the error the script ends in.
\* sp_prefix is bound only in the branch of line 15.
SpTrainMain(cmd) ==
    LET corpus == cmd.corpus
        args_sp_prefix == OptionValue(cmd.sp_prefix, NoneValue)
        vocab_size == IF cmd.vocab_size = Absent THEN DefaultVocabSize
                      ELSE ParseInt(cmd.vocab_size)
        max_sentences == IF cmd.max_sentences = Absent THEN DefaultMaxSentences
                         ELSE ParseInt(cmd.max_sentences)
        coverage == OptionValue(cmd.coverage, << "0.9999" >>)
    IN  IF args_sp_prefix = NoneValue
        THEN [kind |-> "train_spm", corpus |-> corpus,
              sp_prefix |-> corpus \o << "-", "s", "p", "-" >> \o FormatInt(vocab_size),
              vocab_size |-> vocab_size, coverage |-> coverage,
              num_sentences |-> max_sentences]
        ELSE [kind |-> "NameError", name |-> "sp_prefix"]

\* ------------------------------------------------------------- positions
InTranslateList(t) == pc[t] \in {"for", "call", "backend", "post", "extend"}
InWith(t) == entry[t] = "paragraph" /\ (InTranslateList(t) \/ pc[t] \in {"unlock", "exc_unlock"})

\* ------------------------------------------------------------- Init
NoRet == [kind |-> "pending"]
NoFn == [op |-> "none"]

\* What is the same after construction in every workload.
InitCalls ==
    /\ mutex = FALSE
    /\ active = [k \in Translators |-> 0]
    /\ pc = [t \in Threads |-> "start"]
    /\ self = [t \in Threads |-> 1]
    /\ entry = [t \in Threads |-> "paragraph"]
    /\ source_sents = [t \in Threads |-> <<>>]
    /\ breaks = [t \in Threads |-> <<>>]
    /\ texts = [t \in Threads |-> <<>>]
    /\ i = [t \in Threads |-> 0]
    /\ done = [t \in Threads |-> 0]
    /\ to_translate = [t \in Threads |-> <<>>]
    /\ translations = [t \in Threads |-> <<>>]
    /\ results = [t \in Threads |-> <<>>]
    /\ sent_translations = [t \in Threads |-> <<>>]
    /\ ret = [t \in Threads |-> NoRet]
    /\ log = [t \in Threads |-> <<>>]
    /\ fn = NoFn

\* No log directory holds a projector configuration yet.
InitProjector == projector = [d \in LogDirs |-> NoConfig]

\* One WordEmbedder built with an embedding size, nothing initialized.
InitObjects ==
    /\ inputter = NewWordEmbedder(Some("size"))
    /\ InitProjector

\* Concurrent workload: every instance translates one sentence per batch.
Init ==
    /\ translator = [k \in Translators |-> NewTranslator("None", 1)]
    /\ InitCalls
    /\ InitObjects

\* Single-caller workload: instance 1 is built with any language pair and any
\* small batch size, the other instances with the defaults.
InitOne ==
    /\ translator \in { [k \in Translators |->
                            IF k = 1 THEN NewTranslator(lp, bs)
                            ELSE NewTranslator("None", DefaultBatchSize)] :
                        lp \in LangPairs, bs \in 1..MaxBatch }
    /\ InitCalls
    /\ InitObjects

\* ------------------------------------------------------------- actions

\* translate_paragraph is called on an instance and enters paragraph_tokenizer,
\* line 133.
CallTranslateParagraph(t) ==
    /\ pc[t] = "start"
    /\ \E k \in Translators : self' = [self EXCEPT ![t] = k]
    /\ entry' = [entry EXCEPT ![t] = "paragraph"]
    /\ pc' = [pc EXCEPT ![t] = "segment"]
    /\ UNCHANGED << inputter, projector, fn, translator, mutex, active, source_sents, breaks, texts, i,
                    done, to_translate, translations, results,
                    sent_translations, ret, log >>

\* translate_paragraph, line 133: the segmenter yields sentences and breaks.
Segment(t, lists, markers) ==
    /\ pc[t] = "segment"
    /\ \E ss \in lists, br \in markers :
         /\ source_sents' = [source_sents EXCEPT ![t] = ss]
         /\ breaks' = [breaks EXCEPT ![t] = br]
    /\ pc' = [pc EXCEPT ![t] = "lock"]
    /\ log' = [log EXCEPT ![t] = Append(@, Event("tokenize", <<>>))]
    /\ UNCHANGED << inputter, projector, fn, translator, mutex, active, self, entry, texts, i, done,
                    to_translate, translations, results, sent_translations, ret >>

AcquireMutex_Timeout(t) ==
    /\ pc[t] = "lock"
    /\ IF CanAcquire(t)
       THEN /\ mutex' = TRUE
            /\ texts' = [texts EXCEPT ![t] = source_sents[t]]
            /\ i' = [i EXCEPT ![t] = 0]
            /\ done' = [done EXCEPT ![t] = 0]
            /\ results' = [results EXCEPT ![t] = <<>>]
            /\ pc' = [pc EXCEPT ![t] = "for"]
            /\ log' = [log EXCEPT ![t] = Append(@, Event("acquire", <<>>))]
            /\ ret' = ret
       ELSE /\ pc' = [pc EXCEPT ![t] = "raised"]
            /\ ret' = [ret EXCEPT ![t] = [kind |-> "exception"]]
            /\ UNCHANGED << mutex, texts, i, done, results, log >>
    /\ UNCHANGED << inputter, projector, fn, translator, active, self, entry, source_sents, breaks,
                    to_translate, translations, sent_translations >>
\* translate_paragraph, lines 135-136: enter the with block and call
\* translate_list(source_sents); translate_list lines 92-94.
AcquireMutex(t) ==
    /\ pc[t] = "lock"
    /\ CanAcquire(t)
    /\ mutex' = TRUE
    /\ texts' = [texts EXCEPT ![t] = source_sents[t]]
    /\ i' = [i EXCEPT ![t] = 0]
    /\ done' = [done EXCEPT ![t] = 0]
    /\ results' = [results EXCEPT ![t] = <<>>]
    /\ pc' = [pc EXCEPT ![t] = "for"]
    /\ log' = [log EXCEPT ![t] = Append(@, Event("acquire", <<>>))]
    /\ UNCHANGED << inputter, projector, fn, translator, active, self, entry, source_sents, breaks,
                    to_translate, translations, sent_translations, ret >>

\* A caller invokes the public translate_list directly, lines 84-94.
CallTranslateList(t, lists) ==
    /\ pc[t] = "start"
    /\ \E k \in Translators, ss \in lists :
         /\ self' = [self EXCEPT ![t] = k]
         /\ texts' = [texts EXCEPT ![t] = ss]
    /\ entry' = [entry EXCEPT ![t] = "list"]
    /\ i' = [i EXCEPT ![t] = 0]
    /\ done' = [done EXCEPT ![t] = 0]
    /\ results' = [results EXCEPT ![t] = <<>>]
    /\ pc' = [pc EXCEPT ![t] = "for"]
    /\ UNCHANGED << inputter, projector, fn, translator, mutex, active, source_sents, breaks,
                    to_translate, translations, sent_translations, ret, log >>

\* translate_list, lines 95-99: the loop test and the slicing of one batch.
ForNext(t) ==
    /\ pc[t] = "for"
    /\ InRange(i[t], Len(texts[t]))
    /\ to_translate' = [to_translate EXCEPT ![t] =
                          Slice(texts[t], i[t], translator[self[t]].batch_size)]
    /\ pc' = [pc EXCEPT ![t] = "call"]
    /\ UNCHANGED << inputter, projector, fn, translator, mutex, active, self, entry, source_sents, breaks,
                    texts, i, done, translations, results, sent_translations,
                    ret, log >>

\* translate_list, line 107: the loop is over, return results.  Under
\* translate_paragraph the value is bound to `translations` (line 136).
ForEnd(t) ==
    /\ pc[t] = "for"
    /\ ~InRange(i[t], Len(texts[t]))
    /\ IF entry[t] = "paragraph"
       THEN /\ sent_translations' = [sent_translations EXCEPT ![t] = results[t]]
            /\ pc' = [pc EXCEPT ![t] = "unlock"]
            /\ ret' = ret
       ELSE /\ ret' = [ret EXCEPT ![t] = [kind |-> "list", value |-> results[t]]]
            /\ pc' = [pc EXCEPT ![t] = "returned"]
            /\ sent_translations' = sent_translations
    /\ UNCHANGED << inputter, projector, fn, translator, mutex, active, self, entry, source_sents, breaks,
                    texts, i, done, to_translate, translations, results, log >>

\* translate_list, line 101: _translate_batch is entered.
BackendCall(t) ==
    /\ pc[t] = "call"
    /\ active' = [active EXCEPT ![self[t]] = @ + 1]
    /\ pc' = [pc EXCEPT ![t] = "backend"]
    /\ log' = [log EXCEPT ![t] = Append(@, Event("call", to_translate[t]))]
    /\ UNCHANGED << inputter, projector, fn, translator, mutex, self, entry, source_sents, breaks, texts,
                    i, done, to_translate, translations, results,
                    sent_translations, ret >>

\* translate_list, line 101: _translate_batch returns.
BackendReturn(t) ==
    /\ pc[t] = "backend"
    /\ active' = [active EXCEPT ![self[t]] = @ - 1]
    /\ translations' = [translations EXCEPT ![t] = TranslateBatch(to_translate[t])]
    /\ pc' = [pc EXCEPT ![t] = AfterBackendPc]
    /\ log' = [log EXCEPT ![t] = Append(@, Event("return", translations'[t]))]
    /\ UNCHANGED << inputter, projector, fn, translator, mutex, self, entry, source_sents, breaks, texts,
                    i, done, to_translate, results, sent_translations, ret >>

\* translate_list, line 101: _translate_batch raises.
BackendRaise(t) ==
    /\ pc[t] = "backend"
    /\ active' = [active EXCEPT ![self[t]] = @ - 1]
    /\ pc' = [pc EXCEPT ![t] = RaisePc(entry[t])]
    /\ ret' = [ret EXCEPT ![t] = IF pc'[t] = "raised" THEN [kind |-> "exception"] ELSE @]
    /\ log' = [log EXCEPT ![t] = Append(@, Event("raise", <<>>))]
    /\ UNCHANGED << inputter, projector, fn, translator, mutex, self, entry, source_sents, breaks, texts,
                    i, done, to_translate, translations, results,
                    sent_translations >>

\* translate_list, line 103: translations = self._post_zh(translations)
PostProcess(t) ==
    /\ pc[t] = "post"
    /\ translations' = [translations EXCEPT ![t] =
                          PostZh(translator[self[t]].to_lang, @)]
    /\ pc' = [pc EXCEPT ![t] = "extend"]
    /\ log' = [log EXCEPT ![t] = Append(@, Event("post", translations'[t]))]
    /\ UNCHANGED << inputter, projector, fn, translator, mutex, active, self, entry, source_sents, breaks,
                    texts, i, done, to_translate, results, sent_translations, ret >>

ExtendResults_SetsBatchSize(t) ==
    /\ pc[t] = "extend"
    /\ results' = [results EXCEPT ![t] = Extend(@, translations[t])]
    /\ done' = [done EXCEPT ![t] = @ + Len(to_translate[t])]
    /\ i' = [i EXCEPT ![t] = RangeNext(@, translator[self[t]].batch_size)]
    /\ translator' = [translator EXCEPT ![self[t]].batch_size = Len(texts[t])]
    /\ pc' = [pc EXCEPT ![t] = "for"]
    /\ log' = [log EXCEPT ![t] = Append(@, Event("extend", translations[t]))]
    /\ UNCHANGED << inputter, projector, fn, mutex, active, self, entry, source_sents, breaks,
                    texts, to_translate, translations, sent_translations, ret >>
\* translate_list, lines 105-106 and the loop's step.
ExtendResults(t) ==
    /\ pc[t] = "extend"
    /\ results' = [results EXCEPT ![t] = Extend(@, translations[t])]
    /\ done' = [done EXCEPT ![t] = @ + Len(to_translate[t])]
    /\ i' = [i EXCEPT ![t] = RangeNext(@, translator[self[t]].batch_size)]
    /\ pc' = [pc EXCEPT ![t] = "for"]
    /\ log' = [log EXCEPT ![t] = Append(@, Event("extend", translations[t]))]
    /\ UNCHANGED << inputter, projector, fn, translator, mutex, active, self, entry, source_sents, breaks,
                    texts, to_translate, translations, sent_translations, ret >>

\* translate_paragraph, end of the with block on the normal path.
ReleaseMutex(t) ==
    /\ pc[t] = "unlock"
    /\ mutex' = MutexAfterExit(FALSE)
    /\ pc' = [pc EXCEPT ![t] = "detok"]
    /\ log' = [log EXCEPT ![t] = Append(@, Event("release", <<>>))]
    /\ UNCHANGED << inputter, projector, fn, translator, active, self, entry, source_sents, breaks, texts,
                    i, done, to_translate, translations, results,
                    sent_translations, ret >>

\* translate_paragraph: the exception leaves the with block and the method.
ReleaseMutexOnException(t) ==
    /\ pc[t] = "exc_unlock"
    /\ mutex' = MutexAfterExit(TRUE)
    /\ pc' = [pc EXCEPT ![t] = "raised"]
    /\ ret' = [ret EXCEPT ![t] = [kind |-> "exception"]]
    /\ log' = [log EXCEPT ![t] = Append(@, Event("release", <<>>))]
    /\ UNCHANGED << inputter, projector, fn, translator, active, self, entry, source_sents, breaks, texts,
                    i, done, to_translate, translations, results,
                    sent_translations >>

\* translate_paragraph, lines 138-140: reassemble and return.
Detokenize(t) ==
    /\ pc[t] = "detok"
    /\ ret' = [ret EXCEPT ![t] =
                 [kind |-> "text",
                  value |-> ParagraphDetokenizer(sent_translations[t], breaks[t])]]
    /\ pc' = [pc EXCEPT ![t] = "returned"]
    /\ log' = [log EXCEPT ![t] = Append(@, Event("detokenize", sent_translations[t]))]
    /\ UNCHANGED << inputter, projector, fn, translator, mutex, active, self, entry, source_sents, breaks,
                    texts, i, done, to_translate, translations, results,
                    sent_translations >>

\* ------------------------------------------------------------- functions applied alone

\* _post_zh applied to a list of translations, lines 109-119.
ApplyPostZh ==
    /\ fn.op = "none"
    /\ \E lp \in LangPairs, flat \in StringsUpTo(Punctuation, MaxChars), n \in 0..MaxList :
         \E c \in Cuts(Len(flat), n) :
            LET trs == CutAt(flat, c)
            IN  fn' = [op |-> "_post_zh", to_lang |-> ToLang(lp), arg |-> trs,
                       out |-> PostZh(ToLang(lp), trs)]
    /\ UNCHANGED << callVars, objVars >>

\* The lang_pair arguments tried: None and every short string.
PairArgs == { NoneValue } \cup StringsUpTo(PairChars, MaxPair)

\* Translator.__init__ applied to a lang_pair and a batch size, lines 58-72.
ApplyInit ==
    /\ fn.op = "none"
    /\ \E lp \in PairArgs, bs \in (1..MaxBatch) \cup { DefaultBatchSize } :
         fn' = [op |-> "__init__", lang_pair |-> lp, batch_size |-> bs,
                out |-> TranslatorInit(lp, bs)]
    /\ UNCHANGED << callVars, objVars >>

\* load_translator applied to a location, lines 32-48.
ApplyLoadTranslator ==
    /\ fn.op = "none"
    /\ \E ct2 \in BOOLEAN, pb \in BOOLEAN, fails \in BOOLEAN,
          lp \in { PairString(n) : n \in LangPairs } :
         fn' = [op |-> "load_translator", contains_model |-> ct2,
                saved_model_pb |-> pb, ctor_fails |-> fails, lang_pair |-> lp]
               @@ LoadTranslator(ct2, pb, fails, lp)
    /\ UNCHANGED << callVars, objVars >>

\* WordTranslator.has and WordTranslator.lookup applied to a word, lines 21-29.
ApplyWordTranslator ==
    /\ fn.op = "none"
    /\ \E lex \in Lexicons, w \in StringsUpTo(Letters, MaxChars) :
         fn' = [op |-> "WordTranslator", lexicon |-> lex, w |-> w,
                has |-> WordHas(lex, w), lookup |-> WordLookup(lex, w)]
    /\ UNCHANGED << callVars, objVars >>

\* _preprocess applied to a batch of sentences, lines 156-175.
ApplyPreprocess ==
    /\ fn.op = "none"
    /\ \E flat \in StringsUpTo(SentenceChars, MaxChars), n \in 0..MaxList :
         \E c \in Cuts(Len(flat), n) :
            LET txts == CutAt(flat, c)
            IN  fn' = [op |-> "_preprocess", arg |-> txts, out |-> Preprocess(txts)]
    /\ UNCHANGED << callVars, objVars >>

\* The tokens a backend writes: a plain piece, a piece that starts a word and
\* the empty piece.
OutTokens == { Bytes(<< "a" >>), Bytes(<< "SP_MARK", "a" >>), Bytes(<<>>) }

\* What a backend may leave at the positions beyond a hypothesis's length.
Fillers == { Bytes(<<>>), Bytes(<< "a" >>) }

\* A backend output of hyps hypotheses per row: the first hypothesis of row k
\* holds the tokens rows[k] followed by filler up to the longest row, the other
\* hypotheses are full-length rows of word-starting pieces.
BackendOutput(rows, filler, hyps) ==
    LET lens == [k \in 1..Len(rows) |-> Len(rows[k])]
        width == IF rows = <<>> THEN 0 ELSE MaxOf(lens)
    IN  [tokens |-> [k \in 1..Len(rows) |->
                       [h \in 1..hyps |->
                          IF h = 1
                          THEN rows[k] \o [j \in 1..(width - lens[k]) |-> filler]
                          ELSE [j \in 1..width |-> Bytes(<< "SP_MARK", "a" >>)]]],
         length |-> [k \in 1..Len(rows) |->
                       [h \in 1..hyps |-> IF h = 1 THEN lens[k] ELSE width]]]

\* _postprocess applied to a backend output, lines 188-199.
ApplyPostprocess ==
    /\ fn.op = "none"
    /\ \E flat \in StringsUpTo(OutTokens, MaxChars), n \in 0..MaxList,
          filler \in Fillers, hyps \in { 1, 2 } :
         \E c \in Cuts(Len(flat), n) :
            LET outputs == BackendOutput(CutAt(flat, c), filler, hyps)
            IN  fn' = [op |-> "_postprocess", arg |-> outputs,
                       out |-> Postprocess(outputs)]
    /\ UNCHANGED << callVars, objVars >>

\* _detokenize applied to a token list, lines 177-186.
ApplyDetokenize ==
    /\ fn.op = "none"
    /\ \E flat \in StringsUpTo(TokenChars, MaxChars), n \in 0..MaxList :
         \E c \in Cuts(Len(flat), n) :
            LET tokens == CutAt(flat, c)
            IN  fn' = [op |-> "_detokenize", arg |-> tokens,
                       out |-> DetokenizeTokens(tokens)]
    /\ UNCHANGED << callVars, objVars >>

\* ---- the WordEmbedder object exercised alone

\* The call variables and the projector stay as they are.
inputterFrame == << callVars, projector >>

\* initialize(data_config), WordEmbedder.initialize over TextInputter.initialize.
Initialize ==
    /\ \E data_config \in DataConfigs :
         LET r == WordEmbedderInitialize(inputter, data_config)
         IN  /\ inputter' = r.obj
             /\ fn' = [op |-> "initialize", data_config |-> data_config, out |-> r.out]
    /\ UNCHANGED inputterFrame

\* set_noise(noiser, in_place, probability), lines 269-287.
CallSetNoise ==
    /\ \E noiser \in { NoneValue, Some("noiser") }, in_place \in BOOLEAN,
          probability \in { NoneValue, Some("0.5") } :
         LET r == SetNoise(inputter, noiser, in_place, probability)
         IN  /\ inputter' = r.obj
             /\ fn' = [op |-> "set_noise", noiser |-> noiser, in_place |-> in_place,
                       probability |-> probability, out |-> r.out]
    /\ UNCHANGED inputterFrame

\* export_assets(asset_dir), lines 289-291.
CallExportAssets ==
    /\ fn' = [op |-> "export_assets", out |-> ExportAssets(inputter)]
    /\ UNCHANGED << inputter, inputterFrame >>

\* make_features(...), lines 311-350.
CallMakeFeatures ==
    /\ fn' = [op |-> "make_features", out |-> MakeFeatures(inputter)]
    /\ UNCHANGED << inputter, inputterFrame >>

\* input_signature(), lines 352-360.
CallInputSignature ==
    /\ fn' = [op |-> "input_signature", out |-> InputSignature(inputter)]
    /\ UNCHANGED << inputter, inputterFrame >>

\* ---- save_embeddings_metadata exercised alone

\* WordEmbedder.visualize / save_embeddings_metadata on a log directory.
CallSaveEmbeddingsMetadata ==
    /\ \E log_dir \in LogDirs, variable_name \in VariableNames,
          vocabulary_file \in { "vocab.txt", "missing.txt" }, created \in BOOLEAN :
         LET r == SaveEmbeddingsMetadata(projector[log_dir], variable_name,
                                         vocabulary_file, created)
         IN  /\ projector' = [projector EXCEPT ![log_dir] = r.dir]
             /\ fn' = [op |-> "save_embeddings_metadata", log_dir |-> log_dir,
                       variable_name |-> variable_name,
                       vocabulary_file |-> vocabulary_file, out |-> r.out]
    /\ UNCHANGED << callVars, inputter >>

\* ---- callers that call again

\* The caller's thread, back from translate_paragraph with a text or an
\* exception, makes its next call: the locals of the finished call are gone.
CallAgain(t) ==
    /\ pc[t] \in { "returned", "raised" }
    /\ entry[t] = "paragraph"
    /\ pc' = [pc EXCEPT ![t] = "start"]
    /\ source_sents' = [source_sents EXCEPT ![t] = <<>>]
    /\ breaks' = [breaks EXCEPT ![t] = <<>>]
    /\ texts' = [texts EXCEPT ![t] = <<>>]
    /\ i' = [i EXCEPT ![t] = 0]
    /\ done' = [done EXCEPT ![t] = 0]
    /\ to_translate' = [to_translate EXCEPT ![t] = <<>>]
    /\ translations' = [translations EXCEPT ![t] = <<>>]
    /\ results' = [results EXCEPT ![t] = <<>>]
    /\ sent_translations' = [sent_translations EXCEPT ![t] = <<>>]
    /\ ret' = [ret EXCEPT ![t] = NoRet]
    /\ log' = [log EXCEPT ![t] = <<>>]
    /\ UNCHANGED << inputter, projector, fn, translator, mutex, active, self, entry >>

\* translate_list on a Translator built with any batch_size, lines 58-72 and
\* 84-107.
ApplyTranslateList ==
    /\ fn.op = "none"
    /\ \E txts \in SentenceLists, bs \in (0 - MaxBatch)..MaxBatch, lp \in LangPairs :
         fn' = [op |-> "translate_list", arg |-> txts, batch_size |-> bs,
                to_lang |-> ToLang(lp), out |-> TranslateListCall(txts, bs, ToLang(lp))]
    /\ UNCHANGED << callVars, objVars >>

\* The sp_train script run with a command line that gives --corpus.
ApplySpTrain ==
    /\ fn.op = "none"
    /\ \E cmd \in [corpus : { << "c" >>, << "d", "1" >> },
                   sp_prefix : { Absent, << "m" >> },
                   vocab_size : { Absent, << "8" >>, << "0", "8", "0" >> },
                   max_sentences : { Absent, << "9" >> },
                   coverage : { Absent, << "0.5" >> }] :
         fn' = [op |-> "sp_train", cmd |-> cmd, out |-> SpTrainMain(cmd)]
    /\ UNCHANGED << callVars, objVars >>

\* ------------------------------------------------------------- specifications
\* The steps of a call once it is made.
Step(t) ==
    \/ AcquireMutex(t)
    \/ ForNext(t)
    \/ ForEnd(t)
    \/ BackendCall(t)
    \/ BackendReturn(t)
    \/ BackendRaise(t)
    \/ PostProcess(t)
    \/ ExtendResults(t)
    \/ ReleaseMutex(t)
    \/ ReleaseMutexOnException(t)
    \/ Detokenize(t)

\* Concurrent workload, every call made through translate_paragraph.
Next ==
    \E t \in Threads :
        \/ CallTranslateParagraph(t)
        \/ Segment(t, LoadLists, {<<>>})
        \/ Step(t)

Spec == Init /\ [][Next]_vars

\* Concurrent workload in which callers may also invoke translate_list directly.
NextAny ==
    \E t \in Threads :
        \/ CallTranslateParagraph(t)
        \/ Segment(t, LoadLists, {<<>>})
        \/ CallTranslateList(t, LoadLists)
        \/ Step(t)

SpecAny == Init /\ [][NextAny]_vars

\* Single-caller workload: one thread, either public method, any request.
NextOne ==
    \/ CallTranslateParagraph(1)
    \/ Segment(1, SentenceLists, BreakMarkers)
    \/ CallTranslateList(1, SentenceLists)
    \/ Step(1)

SpecOne == InitOne /\ [][NextOne]_vars

\* Functions of the module applied alone to bounded arguments; no call of
\* translate_paragraph is in progress.
InitFn ==
    /\ translator = [k \in Translators |-> NewTranslator("None", DefaultBatchSize)]
    /\ InitCalls
    /\ InitObjects

NextFn ==
    \/ ApplyPostZh
    \/ ApplyInit
    \/ ApplyLoadTranslator
    \/ ApplyWordTranslator
    \/ ApplyPreprocess
    \/ ApplyPostprocess
    \/ ApplyDetokenize
    \/ ApplyTranslateList
    \/ ApplySpTrain

SpecFn == InitFn /\ [][NextFn]_vars

\* Requests of the callers that call again: no sentence or one sentence.
LiveLists == { <<>>, << << "w", "," >> >> }

\* Concurrent workload in which every caller calls again and again, all on
\* the one shared Translator instance 1. What the claim on progress assumes is
\* stated as fairness: segmentation, every step inside translate_list (the
\* backend call included) and reassembly end, and a call that can acquire the
\* lock again and again does acquire it.
NextLive ==
    \E t \in Threads :
        \/ CallTranslateParagraph(t) /\ self'[t] = 1
        \/ Segment(t, LiveLists, {<<>>})
        \/ Step(t)
        \/ CallAgain(t)

\* The steps of a call other than acquiring the lock.
Progress(t) ==
    \/ Segment(t, LiveLists, {<<>>})
    \/ ForNext(t)
    \/ ForEnd(t)
    \/ BackendCall(t)
    \/ BackendReturn(t)
    \/ BackendRaise(t)
    \/ PostProcess(t)
    \/ ExtendResults(t)
    \/ ReleaseMutex(t)
    \/ ReleaseMutexOnException(t)
    \/ Detokenize(t)

SpecLive ==
    /\ Init
    /\ [][NextLive]_vars
    /\ \A t \in Threads : WF_vars(Progress(t)) /\ SF_vars(AcquireMutex(t))

\* One WordEmbedder, built with or without an embedding size, and any
\* sequence of calls of its methods.
InitInputter ==
    /\ translator = [k \in Translators |-> NewTranslator("None", DefaultBatchSize)]
    /\ InitCalls
    /\ inputter \in { NewWordEmbedder(size) : size \in { NoneValue, Some("size") } }
    /\ InitProjector

NextInputter ==
    \/ Initialize
    \/ CallSetNoise
    \/ CallExportAssets
    \/ CallMakeFeatures
    \/ CallInputSignature

SpecInputter == InitInputter /\ [][NextInputter]_vars

\* Log directories holding any initial configuration, and any sequence of
\* calls of save_embeddings_metadata.
InitProjectorAny ==
    /\ translator = [k \in Translators |-> NewTranslator("None", DefaultBatchSize)]
    /\ InitCalls
    /\ inputter = NewWordEmbedder(Some("size"))
    /\ projector \in [LogDirs -> InitialDirs]

NextProjector == CallSaveEmbeddingsMetadata

SpecProjector == InitProjectorAny /\ [][NextProjector]_vars

\* ------------------------------------------------------------- history helpers
IsCall(e) == e.op = "call"
IsRaise(e) == e.op = "raise"
IsAcquire(e) == e.op = "acquire"
IsBatchEvent(e) == e.op \in {"call", "return", "raise", "post", "extend"}

\* The batches handed to _translate_batch so far, in dispatch order.
Calls(t) ==
    LET es == SelectSeq(log[t], IsCall)
    IN  [k \in 1..Len(es) |-> es[k].arg]
\* The per-batch events of the call so far.
BatchEvents(t) == SelectSeq(log[t], IsBatchEvent)

RECURSIVE Flatten(_)
Flatten(ss) == IF ss = <<>> THEN <<>> ELSE Head(ss) \o Flatten(Tail(ss))

\* translate_list has returned normally to its caller.
ListReturned(t) ==
    \/ entry[t] = "paragraph" /\ pc[t] \in {"unlock", "detok", "returned"}
    \/ entry[t] = "list" /\ pc[t] = "returned"

Called(t) == pc[t] # "start"

\* paragraph_tokenizer has returned to translate_paragraph.
Segmented(t) == entry[t] = "paragraph" /\ pc[t] \notin {"start", "segment"}

\* The call is outside the with block of translate_paragraph.
OutsideWith(t) == pc[t] \in {"start", "segment", "lock", "detok", "returned", "raised"}

BatchSize(t) == translator[self[t]].batch_size
TargetLang(t) == translator[self[t]].to_lang

\* ------------------------------------------------------------- claims

\* C1: among threads calling translate_paragraph on the same Translator
\* instance at most one is inside translate_list at any time, and the counter
\* of callers inside that instance's _translate_batch never exceeds 1.
C1_SameInstanceSerialized ==
    \A k \in Translators :
        /\ active[k] <= 1
        /\ Cardinality({ t \in Threads : self[t] = k /\ InTranslateList(t) }) <= 1

\* C1 witness: one call is in the backend while another call on the same
\* instance waits at the lock.
C1_Witness ==
    \E t, u \in Threads :
        /\ t # u /\ self[t] = self[u]
        /\ pc[t] = "backend" /\ active[self[t]] = 1
        /\ pc[u] = "lock"

\* C2: the lock is process-wide: calls of translate_paragraph on different
\* instances are never inside translate_list together, and the backends of
\* all instances together never hold more than one caller.
C2_ProcessWideSerialized ==
    /\ \A t, u \in Threads :
          (t # u /\ entry[t] = "paragraph" /\ entry[u] = "paragraph"
           /\ self[t] # self[u])
          => ~(InTranslateList(t) /\ InTranslateList(u))
    /\ \A k, j \in Translators : k # j => active[k] + active[j] <= 1

\* C2 witness: a call on one instance is in the backend while a call on
\* another instance waits at the lock.
C2_Witness ==
    \E t, u \in Threads :
        /\ self[t] # self[u]
        /\ pc[t] = "backend"
        /\ pc[u] = "lock"

\* C3: no two executions of translate_list overlap in the process, whichever
\* public method they were entered through.
C3_AllTranslateListSerialized ==
    Cardinality({ t \in Threads : InTranslateList(t) }) <= 1

\* C4: the mutex is never left held by a call that is no longer inside the
\* with block, also when _translate_batch raised; once the exception has left
\* translate_paragraph a waiting call can acquire the lock.
C4_MutexReleasedOnEveryExit ==
    /\ mutex => \E t \in Threads : InWith(t)
    /\ \A t, u \in Threads :
          (pc[t] = "raised" /\ pc[u] = "lock" /\ ~(\E w \in Threads : InWith(w)))
          => ENABLED AcquireMutex(u)

\* C4 witness: one call has ended with the backend's exception and another
\* call holds the lock and is in the backend afterwards.
C4_Witness ==
    \E t, u \in Threads :
        /\ pc[t] = "raised" /\ entry[t] = "paragraph"
        /\ pc[u] = "backend" /\ entry[u] = "paragraph"
        /\ mutex

\* C5: when _translate_batch raises, the exception reaches the caller
\* uncaught: the call can only unwind (release the lock and end as raised),
\* the caller gets no result, no batch is dispatched after the failed one
\* (so it is not retried either) and the reassembler is not run.
C5_AbortOnBackendFailure ==
    \A t \in Threads :
        \A p \in 1..Len(log[t]) :
            log[t][p].op = "raise" =>
                /\ pc[t] \in {"exc_unlock", "raised"}
                /\ ret[t].kind \in {"pending", "exception"}
                /\ pc[t] = "raised" => ret[t].kind = "exception"
                /\ \A q \in (p + 1)..Len(log[t]) : log[t][q].op = "release"
                /\ Len(Calls(t)) = Len(SelectSeq(SubSeq(log[t], 1, p), IsCall))

\* C5 witness: a call of three one-sentence batches has ended with the
\* exception raised by its second batch.
C5_Witness ==
    \E t \in Threads :
        /\ pc[t] = "raised"
        /\ Len(texts[t]) = 3 /\ BatchSize(t) = 1
        /\ Len(Calls(t)) = 2
        /\ Len(results[t]) = 1

\* C6: translate_list returns exactly one entry per input sentence, the i-th
\* entry being the post-processed translation of the i-th sentence.
C6_OrderPreserved ==
    \A t \in Threads :
        ListReturned(t) =>
            /\ Len(results[t]) = Len(texts[t])
            /\ \A j \in 1..Len(texts[t]) :
                  results[t][j] = PostZh(TargetLang(t), << ModelOut(texts[t][j]) >>)[1]
            /\ entry[t] = "list" => ret[t] = [kind |-> "list", value |-> results[t]]
            /\ entry[t] = "paragraph" => sent_translations[t] = results[t]

\* C6 witness: a list of three sentences, not all equal, has been translated
\* in batches of two.
C6_Witness ==
    \E t \in Threads :
        /\ entry[t] = "list" /\ pc[t] = "returned"
        /\ Len(texts[t]) = 3 /\ BatchSize(t) = 2
        /\ texts[t][1] # texts[t][2] /\ texts[t][2] = texts[t][3]

\* C7: the list translate_list returns is the one it returns for batch size 1,
\* for batch size len(list) and for every batch size in between.
C7_BatchingInvariance ==
    \A t \in Threads :
        ListReturned(t) =>
            \A b \in 1..Len(texts[t]) :
                TranslateList(texts[t], b, TargetLang(t)) = results[t]

\* C7 witness: a list of three different-looking sentences has been
\* translated in one batch of three.
C7_Witness ==
    \E t \in Threads :
        /\ ListReturned(t)
        /\ Len(texts[t]) = 3 /\ BatchSize(t) = 3
        /\ texts[t][1] # texts[t][3]

\* C8: the batches handed to _translate_batch are contiguous slices that
\* concatenate, in dispatch order, to a prefix of the input (the whole input
\* once translate_list has returned); each is non-empty and no longer than
\* batch_size; all but the last have exactly batch_size sentences; and a
\* finished call has dispatched ceil(N / batch_size) batches.
C8_BatchPartition ==
    \A t \in Threads :
        LET calls == Calls(t)
            n == Len(texts[t])
            bs == BatchSize(t)
        IN  /\ Len(Flatten(calls)) <= n
            /\ Flatten(calls) = SubSeq(texts[t], 1, Len(Flatten(calls)))
            /\ \A k \in 1..Len(calls) :
                  /\ Len(calls[k]) >= 1
                  /\ Len(calls[k]) <= bs
                  /\ k < Len(calls) => Len(calls[k]) = bs
            /\ ListReturned(t) =>
                  /\ Flatten(calls) = texts[t]
                  /\ Len(calls) = (n + bs - 1) \div bs
                  /\ \A k \in 1..(Len(calls) - 1) : Len(calls[k]) = bs

\* C8 witness: three sentences have been translated in batches of two, the
\* last batch holding one sentence.
C8_Witness ==
    \E t \in Threads :
        /\ ListReturned(t)
        /\ Len(texts[t]) = 3 /\ BatchSize(t) = 2
        /\ Len(Calls(t)) = 2
        /\ Len(Calls(t)[2]) = 1

\* C9: when the segmenter yields no sentence, translate_paragraph acquires
\* and releases the mutex, never calls the backend, never raises, hands the
\* empty list with the breaks to the reassembler and returns its text.
C9_EmptyInputReturns ==
    \A t \in Threads :
        (Segmented(t) /\ source_sents[t] = <<>>) =>
            /\ Calls(t) = <<>>
            /\ pc[t] \in {"lock", "for", "unlock", "detok", "returned"}
            /\ pc[t] # "returned" => ENABLED Step(t)
            /\ pc[t] = "returned" =>
                  /\ log[t] = << Event("tokenize", <<>>), Event("acquire", <<>>),
                                 Event("release", <<>>), Event("detokenize", <<>>) >>
                  /\ ret[t] = [kind |-> "text",
                               value |-> ParagraphDetokenizer(<<>>, breaks[t])]
                  /\ mutex = FALSE

\* C9 witness: a translate_paragraph call whose segmentation was empty has
\* returned.
C9_Witness ==
    \E t \in Threads :
        /\ entry[t] = "paragraph" /\ pc[t] = "returned"
        /\ source_sents[t] = <<>> /\ breaks[t] = <<"\n">>
        /\ Len(log[t]) = 4

\* C10: within one translate_list call the batch events come strictly in the
\* order call, return (or raise, which ends the call), post-processing,
\* append, batch after batch in list order; the k-th batch is the k-th slice,
\* what is post-processed is what the backend returned for it, what is
\* appended is what post-processing produced, so every translation passes
\* through _post_zh once; and the call has at most one batch in the backend.
C10_SequentialBatchProtocol ==
    /\ \A t \in Threads :
           LET ev == BatchEvents(t)
               bs == BatchSize(t)
           IN  /\ \A j \in 1..Len(ev) :
                     LET k == (j - 1) \div 4        \* batches completed before
                         r == (j - 1) % 4
                         batch == Slice(texts[t], k * bs, bs)
                     IN  /\ r = 0 => ev[j] = Event("call", batch)
                         /\ r = 1 => \/ ev[j] = Event("return", TranslateBatch(batch))
                                     \/ ev[j].op = "raise" /\ j = Len(ev)
                         /\ r = 2 => ev[j] = Event("post", PostZh(TargetLang(t), ev[j - 1].arg))
                         /\ r = 3 => ev[j] = Event("extend", ev[j - 1].arg)
               /\ pc[t] = "backend" <=> (Len(ev) % 4 = 1)
               /\ ListReturned(t) => Len(ev) = 4 * Len(Calls(t))
    /\ \A k \in Translators :
          active[k] = Cardinality({ t \in Threads : self[t] = k /\ pc[t] = "backend" })

\* C10 witness: a call has returned after three batches, each of them called,
\* post-processed and appended.
C10_Witness ==
    \E t \in Threads :
        /\ ListReturned(t)
        /\ Len(Calls(t)) = 3
        /\ Len(BatchEvents(t)) = 12
        /\ TargetLang(t) = "zh"

\* C11: for to_lang "zh" _post_zh returns as many strings, in the same
\* order and of the same lengths, with every ASCII comma, semicolon and colon
\* replaced by its full-width form and every other character unchanged; for
\* any other to_lang it returns the translations unchanged.
C11_PostZhReplacesPunctuation ==
    fn.op = "_post_zh" =>
        IF fn.to_lang = "zh"
        THEN /\ Len(fn.out) = Len(fn.arg)
             /\ \A k \in 1..Len(fn.arg) :
                   /\ Len(fn.out[k]) = Len(fn.arg[k])
                   /\ \A j \in 1..Len(fn.arg[k]) :
                         fn.out[k][j] =
                            CASE fn.arg[k][j] = "," -> "FW_COMMA"
                              [] fn.arg[k][j] = ";" -> "FW_SEMICOLON"
                              [] fn.arg[k][j] = ":" -> "FW_COLON"
                              [] OTHER -> fn.arg[k][j]
        ELSE fn.out = fn.arg

\* C11 witness: a list of two strings holding a comma, a question mark and
\* a colon went through _post_zh for target language zh.
C11_Witness ==
    /\ fn.op = "_post_zh" /\ fn.to_lang = "zh"
    /\ fn.arg = << << ",", "?" >>, << ":" >> >>
    /\ fn.out = << << "FW_COMMA", "?" >>, << "FW_COLON" >> >>

\* C12: for to_lang "zh" applying _post_zh to its own output changes
\* nothing, and text without ASCII comma, semicolon or colon is returned
\* unchanged.
C12_PostZhIdempotent ==
    (fn.op = "_post_zh" /\ fn.to_lang = "zh") =>
        /\ PostZh("zh", fn.out) = fn.out
        /\ (\A k \in 1..Len(fn.arg) : \A j \in 1..Len(fn.arg[k]) :
               fn.arg[k][j] \notin {",", ";", ":"}) => fn.out = fn.arg

\* C12 witness: a text mixing ASCII and full-width punctuation was normalized.
C12_Witness ==
    /\ fn.op = "_post_zh" /\ fn.to_lang = "zh"
    /\ fn.arg = << << ":", "FW_COLON", "," >> >>

\* C13: the mutex covers translate_list only: a call that is in the
\* segmenter or in the reassembler does not hold it, so it never keeps a
\* waiting call from acquiring the lock, and it can itself go on whatever
\* the state of the lock.
C13_MutexCoversOnlyTranslateList ==
    /\ \A u \in Threads :
          (pc[u] = "lock" /\ \A t \in Threads \ {u} : OutsideWith(t))
          => ENABLED AcquireMutex(u)
    /\ \A t \in Threads :
          /\ pc[t] = "segment" => ENABLED Segment(t, LoadLists, {<<>>})
          /\ pc[t] = "detok" => ENABLED Detokenize(t)

\* C13 witness: one call is in the reassembler while another is inside
\* translate_list, in the backend, holding the lock.
C13_Witness ==
    \E t, u \in Threads :
        /\ pc[t] = "detok"
        /\ pc[u] = "backend" /\ mutex

\* C13, further reachable states: two calls in segmentation and/or reassembly
\* at once, and a call in segmentation while another is inside translate_list.
C13_WitnessBothOutside ==
    \E t, u \in Threads :
        /\ pc[t] = "segment" /\ pc[u] = "detok"

C13_WitnessSegmentDuringList ==
    \E t, u \in Threads :
        /\ pc[t] = "segment" /\ pc[u] = "backend"

\* What translate_paragraph has handed to the reassembler and returned.
C14_Reassembled(t) ==
    (entry[t] = "paragraph" /\ pc[t] = "returned") =>
        /\ ret[t].kind = "text"
        /\ ret[t].value.breaks = breaks[t]
        /\ Len(ret[t].value.translations) = Len(source_sents[t])
        /\ \A j \in 1..Len(source_sents[t]) :
              ret[t].value.translations[j] =
                 PostZh(TargetLang(t), << ModelOut(source_sents[t][j]) >>)[1]
        /\ ret[t].value = ParagraphDetokenizer(sent_translations[t], breaks[t])
        /\ ParagraphCount(ret[t].value) = Len(breaks[t]) + 1

\* The segmenter's output is not touched after segmentation.
C14_SegmentationKept(t) ==
    Segmented(t) => /\ breaks'[t] = breaks[t]
                    /\ source_sents'[t] = source_sents[t]

\* C14: translate_paragraph never changes the sentences and break markers
\* the segmenter produced, and hands the reassembler those break markers
\* together with exactly one translation per sentence, in sentence order; the
\* text returned therefore has as many paragraphs as the segmenter found.
C14_ParagraphRoundTrip ==
    /\ [](\A t \in Threads : C14_Reassembled(t))
    /\ [][\A t \in Threads : C14_SegmentationKept(t)]_vars

\* C14 witness: a text of two paragraphs and three sentences, translated in
\* batches of two, has been reassembled.
C14_Witness ==
    \E t \in Threads :
        /\ entry[t] = "paragraph" /\ pc[t] = "returned"
        /\ Len(source_sents[t]) = 3 /\ BatchSize(t) = 2
        /\ source_sents[t][1] # source_sents[t][2]
        /\ breaks[t] = << "\n" >>
        /\ ParagraphCount(ret[t].value) = 2

\* C15: load_translator invokes exactly one adapter constructor: the CT2
\* adapter when the location is recognized as a CTranslate2 model (also with
\* a saved_model.pb present), else the SavedModel adapter when saved_model.pb
\* exists, else the checkpoint adapter; when that constructor fails the
\* caller gets the exception and no other adapter was tried.
C15_BackendDispatch ==
    fn.op = "load_translator" =>
        /\ Len(fn.invoked) = 1
        /\ fn.contains_model => fn.invoked[1] = "TranslatorCT2"
        /\ (~fn.contains_model /\ fn.saved_model_pb) => fn.invoked[1] = "TranslatorSaved"
        /\ (~fn.contains_model /\ ~fn.saved_model_pb) => fn.invoked[1] = "TranslatorCkpt"
        /\ fn.ctor_fails => fn.out = [kind |-> "exception"]
        /\ ~fn.ctor_fails => (fn.out.kind = "translator" /\ fn.out.class = fn.invoked[1])

\* C15 witness: a location that is a CTranslate2 model and also holds
\* saved_model.pb was loaded as a CT2 translator.
C15_Witness ==
    /\ fn.op = "load_translator"
    /\ fn.contains_model /\ fn.saved_model_pb /\ ~fn.ctor_fails
    /\ fn.out.class = "TranslatorCT2"

\* The position of the only dash of s, 0 when s has none or several.
C16_OnlyDash(s) ==
    IF Cardinality({ p \in 1..Len(s) : s[p] = "-" }) = 1
    THEN CHOOSE p \in 1..Len(s) : s[p] = "-"
    ELSE 0

\* C16: a translator built with lang_pair None has from_lang "en" and to_lang
\* "zh"; built with a string "<src>-<tgt>" it has from_lang <src> and to_lang
\* <tgt>; it keeps the lang_pair and batch size given, and a translator
\* obtained through load_translator has batch size 64.
C16_LanguagePair ==
    /\ (fn.op = "__init__" /\ fn.lang_pair = NoneValue) =>
          fn.out = [kind |-> "translator", lang_pair |-> NoneValue,
                    from_lang |-> <<"e", "n">>, to_lang |-> <<"z", "h">>,
                    batch_size |-> fn.batch_size]
    /\ (fn.op = "__init__" /\ fn.lang_pair # NoneValue /\ C16_OnlyDash(fn.lang_pair) > 0) =>
          LET p == C16_OnlyDash(fn.lang_pair)
          IN  fn.out = [kind |-> "translator", lang_pair |-> fn.lang_pair,
                        from_lang |-> SubSeq(fn.lang_pair, 1, p - 1),
                        to_lang |-> SubSeq(fn.lang_pair, p + 1, Len(fn.lang_pair)),
                        batch_size |-> fn.batch_size]
    /\ (fn.op = "load_translator" /\ ~fn.ctor_fails) =>
          /\ fn.out.fields.batch_size = 64
          /\ fn.out.fields.lang_pair = fn.lang_pair
          /\ fn.lang_pair = NoneValue =>
                (fn.out.fields.from_lang = <<"e", "n">> /\ fn.out.fields.to_lang = <<"z", "h">>)

\* C16 witness: a translator was built with lang_pair "zh-en".
C16_Witness ==
    /\ fn.op = "__init__"
    /\ fn.lang_pair = <<"z", "h", "-", "e", "n">>
    /\ fn.out.from_lang = <<"z", "h">> /\ fn.out.to_lang = <<"e", "n">>

\* C17: no step of a translate_paragraph or translate_list call, successful
\* or failing, changes a field of a Translator instance: batch_size, lang_pair,
\* from_lang, to_lang, the tokenizer handle and the backend handle keep the
\* values they got at construction.
C17_TranslatorFieldsFrozen ==
    [][translator' = translator]_vars

\* C17 witness: of two concurrent calls one has returned and one has failed,
\* the second after a first batch was appended, and the instances are as built.
C17_Witness ==
    \E t, u \in Threads :
        /\ pc[t] = "returned" /\ Len(texts[t]) = 2
        /\ pc[u] = "raised" /\ Len(results[u]) = 1
        /\ translator = [k \in Translators |-> NewTranslator("None", 1)]

\* A call that waits at the lock while another call is inside the with block
\* has no step of its own.
C18_WaiterHasNoStep(u) ==
    (pc[u] = "lock" /\ \E t \in Threads \ {u} : InWith(t)) =>
        ~ENABLED (CallTranslateParagraph(u) \/ Segment(u, LoadLists, {<<>>}) \/ Step(u))

\* While the call in the backend stays there, a call waiting at the lock
\* stays at the lock and gets nothing back.
C18_WaiterStays(t, u) ==
    (t # u /\ entry[t] = "paragraph" /\ pc[t] = "backend" /\ pc'[t] = "backend"
     /\ pc[u] = "lock")
    => (pc'[u] = "lock" /\ ret'[u] = ret[u] /\ log'[u] = log[u])

\* C18: the lock has no timeout and no cancellation: while a call is inside
\* translate_list with its backend call not returning, every call that has
\* finished segmentation stays blocked at the lock, does not enter
\* translate_list and gets no error or timeout result; the only way a waiting
\* call ever leaves the lock is by acquiring it.
C18_NoTimeoutOnLock ==
    /\ [](\A u \in Threads : C18_WaiterHasNoStep(u))
    /\ [][\A t, u \in Threads : C18_WaiterStays(t, u)]_vars
    /\ [][\A u \in Threads : pc[u] = "lock" => pc'[u] \in {"lock", "for"}]_vars

\* C18 witness: one call is in the backend and every other call is blocked
\* at the lock.
C18_Witness ==
    \E t \in Threads :
        /\ pc[t] = "backend" /\ mutex
        /\ \A u \in Threads \ {t} : pc[u] = "lock" /\ ret[u] = NoRet

\* C19: has(w) is membership of the lowercased word, so every case variant
\* of w gets the same answer; lookup(w) returns the first listed translation
\* of the lowercased word when it is present, and ends in a lookup error, not
\* a default value, when has(w) is false.
C19_WordTranslator ==
    fn.op = "WordTranslator" =>
        /\ fn.has = (Lower(fn.w) \in DOMAIN fn.lexicon)
        /\ \A v \in StringsUpTo(Letters, Len(fn.w)) :
              Lower(v) = Lower(fn.w) => WordHas(fn.lexicon, v) = fn.has
        /\ fn.has => fn.lookup = [kind |-> "value", value |-> fn.lexicon[Lower(fn.w)][1]]
        /\ ~fn.has => fn.lookup = [kind |-> "KeyError"]

\* C19 witness: an upper-case spelling of a word of the lexicon was found and
\* looked up.
C19_Witness ==
    /\ fn.op = "WordTranslator"
    /\ fn.w = << "A", "b" >>
    /\ fn.has
    /\ fn.lookup = [kind |-> "value", value |-> << "z" >>]

\* C19, the other case: a word that is absent was looked up.
C19_WitnessAbsent ==
    /\ fn.op = "WordTranslator"
    /\ ~fn.has /\ fn.lookup.kind = "KeyError"

\* C20: for a non-empty batch _preprocess returns one token sequence per
\* sentence, all of the length of the longest tokenization; the first
\* length[k] tokens of sentence k are the tokenizer's tokens in order, every
\* later position is the empty-string sentinel, and length[k] is the token
\* count of sentence k before padding.
C20_TrailingPadding ==
    (fn.op = "_preprocess" /\ fn.arg # <<>>) =>
        /\ fn.out.kind = "inputs"
        /\ Len(fn.out.tokens) = Len(fn.arg)
        /\ Len(fn.out.length) = Len(fn.arg)
        /\ \A k \in 1..Len(fn.arg) :
              LET toks == SpEncode(fn.arg[k])
              IN  /\ fn.out.length[k] = Len(toks)
                  /\ \A m \in 1..Len(fn.arg) : Len(fn.out.tokens[k]) >= fn.out.length[m]
                  /\ \E m \in 1..Len(fn.arg) : Len(fn.out.tokens[k]) = fn.out.length[m]
                  /\ SubSeq(fn.out.tokens[k], 1, Len(toks)) = toks
                  /\ \A j \in (Len(toks) + 1)..Len(fn.out.tokens[k]) :
                        fn.out.tokens[k][j] = <<>>

\* C20 witness: a batch of a one-token and a two-token sentence was padded to
\* two tokens.
C20_Witness ==
    /\ fn.op = "_preprocess"
    /\ fn.arg = << << "h" >>, << "w", "," >> >>
    /\ fn.out.length = << 1, 2 >>
    /\ fn.out.tokens[1] = << << "SP_MARK", "h" >>, <<>> >>

\* The output with everything _postprocess is said not to read replaced: one
\* hypothesis per row, and a word-starting piece at every position at or
\* beyond the reported length.
C21_Overwritten(outputs) ==
    [tokens |-> [k \in 1..Len(outputs.tokens) |->
                   << [j \in 1..Len(outputs.tokens[k][1]) |->
                         IF j <= outputs.length[k][1] THEN outputs.tokens[k][1][j]
                         ELSE Bytes(<< "SP_MARK", "a" >>)] >>],
     length |-> [k \in 1..Len(outputs.length) |-> << outputs.length[k][1] >>]]

\* C21: _postprocess returns one text per output row, in row order; the text
\* of a row is the detokenization of the first length[0] tokens of its first
\* hypothesis, so what stands at or beyond that length, and the other
\* hypotheses, do not contribute.
C21_PaddingStripped ==
    fn.op = "_postprocess" =>
        /\ Len(fn.out) = Len(fn.arg.tokens)
        /\ \A k \in 1..Len(fn.arg.tokens) :
              LET n == fn.arg.length[k][1]
              IN  fn.out[k] = DetokenizeTokens([j \in 1..n |-> fn.arg.tokens[k][1][j].bytes])
        /\ fn.out = Postprocess(C21_Overwritten(fn.arg))

\* C21 witness: rows of 1 and 2 tokens padded to 2 with a non-empty filler,
\* two hypotheses per row, gave texts built from 1 and 2 tokens.
C21_Witness ==
    /\ fn.op = "_postprocess"
    /\ Len(fn.arg.tokens) = 2
    /\ fn.arg.length = << << 1, 2 >>, << 2, 2 >> >>
    /\ fn.arg.tokens[1][1] = << Bytes(<< "a" >>), Bytes(<< "a" >>) >>
    /\ fn.arg.tokens[2][1] = << Bytes(<< "SP_MARK", "a" >>), Bytes(<< "a" >>) >>
    /\ fn.out = << << "a" >>, << "a", "a" >> >>

\* C22: _detokenize returns the tokens concatenated, with every space
\* removed, then every word-boundary marker turned into one space, then
\* trimmed of leading and trailing whitespace; the result neither starts nor
\* ends with whitespace, holds no marker, and is empty for no tokens.
C22_Detokenized ==
    fn.op = "_detokenize" =>
        LET cat == Flatten(fn.arg)
            kept == SelectSeq(cat, LAMBDA ch : ch # " ")
            text == [k \in 1..Len(kept) |-> IF kept[k] = "SP_MARK" THEN " " ELSE kept[k]]
        IN  /\ \E a \in 0..Len(text), b \in 0..Len(text) :
                  /\ a + Len(fn.out) + b = Len(text)
                  /\ fn.out = SubSeq(text, a + 1, a + Len(fn.out))
                  /\ \A k \in 1..a : text[k] \in Whitespace
                  /\ \A k \in (Len(text) - b + 1)..Len(text) : text[k] \in Whitespace
            /\ fn.out # <<>> => (fn.out[1] \notin Whitespace /\ fn.out[Len(fn.out)] \notin Whitespace)
            /\ \A k \in 1..Len(fn.out) : fn.out[k] # "SP_MARK"
            /\ fn.arg = <<>> => fn.out = <<>>

\* C22 witness: a plain token and a word-starting token became two words
\* separated by one space.
C22_Witness ==
    /\ fn.op = "_detokenize"
    /\ fn.arg = << << "a" >>, << "SP_MARK", "a" >> >>
    /\ fn.out = << "a", " ", "a" >>

\* C23: export_assets, make_features and input_signature raise the
\* RuntimeError "The input layer is not initialized" exactly when
\* TextInputter.initialize has never run to its end, whatever calls came
\* before (failed initializations included), and this is exactly when the
\* tokenizer field is None.
C23_InitializationGuard ==
    /\ inputter.base_initialized <=> inputter.tokenizer # NoneValue
    /\ fn.op \in { "export_assets", "make_features", "input_signature" } =>
          /\ (fn.out.kind = "RuntimeError") <=> ~inputter.base_initialized
          /\ (fn.out.kind = "RuntimeError") <=> (inputter.tokenizer = NoneValue)
          /\ fn.out.kind = "RuntimeError" =>
                fn.out.message = "The input layer is not initialized"
          /\ fn.out.kind \in { "RuntimeError", "returned" }

\* C23 witness: make_features raised after an initialize that failed once the
\* vocabulary file name was stored.
C23_Witness ==
    /\ fn.op = "make_features"
    /\ fn.out.kind = "RuntimeError"
    /\ inputter.vocabulary_file = Some("missing.txt")
    /\ inputter.tokenizer = NoneValue

\* C23, second case: input_signature returned after an initialize whose
\* TextInputter part completed and whose WordEmbedder part raised.
C23_WitnessReturned ==
    /\ fn.op = "input_signature"
    /\ fn.out.kind = "returned"
    /\ inputter.embedding_size = NoneValue
    /\ inputter.embedding_file = NoneValue

\* The names registered in a log directory are pairwise different.
C24_NoDuplicates(d) ==
    \A j, k \in 1..Len(projector[d].config) :
        projector[d].config[j].tensor_name = projector[d].config[k].tensor_name => j = k

\* What one returning call of save_embeddings_metadata does to the
\* configuration of its log directory.
C24_Registered ==
    LET d == fn'.log_dir
        v == fn'.variable_name
        old == projector[d].config
        new == projector'[d].config
    IN  /\ projector'[d].exists
        /\ IF \E k \in 1..Len(old) : old[k].tensor_name = v
           THEN /\ Len(new) = Len(old)
                /\ \A k \in 1..Len(old) :
                      /\ new[k].tensor_name = old[k].tensor_name
                      /\ old[k].tensor_name # v => new[k] = old[k]
                      /\ old[k].tensor_name = v =>
                            new[k].metadata_path = MetadataFilename(v)
           ELSE /\ Len(new) = Len(old) + 1
                /\ SubSeq(new, 1, Len(old)) = old
                /\ new[Len(new)] = Embedding(v, MetadataFilename(v))
        /\ \A e \in LogDirs \ { d } : projector'[e] = projector[e]
        /\ SaveEmbeddingsMetadata(projector'[d], v, fn'.vocabulary_file, TRUE).dir
              = projector'[d]

\* C24: a call of save_embeddings_metadata for a registered variable only
\* updates its metadata path, for an unregistered one it adds one entry at
\* the end; the other entries stay as they are, a second call with the same
\* arguments changes nothing, and no name is ever registered twice.
C24_EmbeddingRegistration ==
    /\ [](\A d \in LogDirs : C24_NoDuplicates(d))
    /\ [][(fn'.op = "save_embeddings_metadata" /\ fn'.out.kind = "returned")
            => C24_Registered]_vars

\* C24 witness: the directory that held an entry of the variable under
\* another path and a foreign entry holds, after calls for that variable and
\* for a second one, three entries, the first with its path updated.
C24_Witness ==
    /\ fn.op = "save_embeddings_metadata" /\ fn.log_dir = "run1"
    /\ Len(projector["run1"].config) = 3
    /\ projector["run1"].config[1] =
          Embedding(<< "s", "/", "e", "/", "A", "/", "V" >>, << "s", "_", "e", ".txt" >>)
    /\ projector["run1"].config[2] = ForeignEmbedding
    /\ projector["run1"].config[3].tensor_name = << "t", "/", "e", "/", "A", "/", "V" >>

\* C25: set_noise with in_place true and probability None raises ValueError
\* and leaves noiser, in_place_noise and noise_probability as they were; any
\* other call sets the three fields to its arguments.
C25_SetNoise ==
    [][fn'.op = "set_noise" =>
          IF fn'.in_place /\ fn'.probability = NoneValue
          THEN /\ fn'.out.kind = "ValueError"
               /\ inputter'.noiser = inputter.noiser
               /\ inputter'.in_place_noise = inputter.in_place_noise
               /\ inputter'.noise_probability = inputter.noise_probability
          ELSE /\ fn'.out.kind = "returned"
               /\ inputter'.noiser = fn'.noiser
               /\ inputter'.in_place_noise = fn'.in_place
               /\ inputter'.noise_probability = fn'.probability]_vars

\* C25 witness: a call with a noiser of None, in_place true and no
\* probability raised, and the noise set before is still in place.
C25_Witness ==
    /\ fn.op = "set_noise" /\ fn.out.kind = "ValueError"
    /\ fn.noiser = NoneValue
    /\ inputter.noiser = Some("noiser")
    /\ inputter.in_place_noise = FALSE
    /\ inputter.noise_probability = Some("0.5")

\* The number of times the call of thread t has acquired the mutex.
C26_Acquired(t) == Len(SelectSeq(log[t], IsAcquire))

\* C26: with terminating backend calls, segmentation and reassembly, and fair
\* lock acquisition, every translate_paragraph call eventually returns or
\* raises; the mutex is never held while no call is inside the with block, so
\* a waiting call can acquire it whenever no call is inside; and a call has
\* acquired the mutex once from the moment it enters the with block, never
\* more.
C26_EveryCallEnds ==
    /\ \A t \in Threads : (pc[t] = "segment") ~> (pc[t] \in { "returned", "raised" })
    /\ [](\A t \in Threads :
             /\ (pc[t] = "lock" /\ ~(\E u \in Threads : InWith(u)))
                   => (~mutex /\ ENABLED AcquireMutex(t))
             /\ C26_Acquired(t) = IF pc[t] \in { "start", "segment", "lock" } THEN 0 ELSE 1)

\* C26 witness: a call has returned after acquiring the mutex once while
\* another call, which waited at the lock, is now inside translate_list.
C26_Witness ==
    \E t, u \in Threads :
        /\ pc[t] = "returned" /\ C26_Acquired(t) = 1
        /\ pc[u] = "backend" /\ C26_Acquired(u) = 1

\* C27: with batch_size 0 translate_list raises (the zero step of range) for
\* every input, the empty list included, and calls no backend; with a
\* negative batch_size it calls no backend and returns the empty list for
\* every input, so every non-empty input loses all its sentences.
C27_OutOfRangeBatchSize ==
    fn.op = "translate_list" =>
        /\ fn.batch_size = 0 => (fn.out.kind = "ValueError" /\ fn.out.calls = 0)
        /\ fn.batch_size < 0 =>
              /\ fn.out.kind = "list"
              /\ fn.out.calls = 0
              /\ fn.out.value = <<>>
              /\ fn.arg # <<>> => Len(fn.out.value) # Len(fn.arg)

\* C27 witness: two sentences were handed to translate_list with batch_size
\* -1 and nothing came back.
C27_Witness ==
    /\ fn.op = "translate_list"
    /\ fn.batch_size = 0 - 1
    /\ Len(fn.arg) = 2
    /\ fn.out.kind = "list" /\ fn.out.value = <<>>

\* C27, second case: the empty list with batch_size 0 raised.
C27_WitnessZero ==
    /\ fn.op = "translate_list"
    /\ fn.batch_size = 0
    /\ fn.arg = <<>>
    /\ fn.out.kind = "ValueError"

\* C28: the sp_train script reaches train_spm with the corpus, the vocab
\* size, the coverage and max_sentences, and with the prefix the user chose:
\* the value of --sp_prefix when it is given, "<corpus>-sp-<vocab_size>" when
\* it is not.
C28_PrefixPassedToTrainSpm ==
    fn.op = "sp_train" =>
        LET vocab_size == IF fn.cmd.vocab_size = Absent THEN DefaultVocabSize
                          ELSE ParseInt(fn.cmd.vocab_size)
        IN  /\ fn.out.kind = "train_spm"
            /\ fn.out.corpus = fn.cmd.corpus
            /\ fn.out.vocab_size = vocab_size
            /\ fn.out.sp_prefix =
                  IF fn.cmd.sp_prefix # Absent THEN fn.cmd.sp_prefix
                  ELSE fn.cmd.corpus \o << "-", "s", "p", "-" >> \o FormatInt(vocab_size)
            /\ fn.out.coverage = OptionValue(fn.cmd.coverage, << "0.9999" >>)
            /\ fn.out.num_sentences =
                  IF fn.cmd.max_sentences = Absent THEN DefaultMaxSentences
                  ELSE ParseInt(fn.cmd.max_sentences)

\* The half of C28 the script does: without --sp_prefix train_spm is reached
\* with the prefix "<corpus>-sp-<vocab_size>".
C28_DefaultPrefix ==
    (fn.op = "sp_train" /\ fn.cmd.sp_prefix = Absent) => C28_PrefixPassedToTrainSpm

====
